---- MODULE Spec2Model ----
(***************************************************************************)
(* A model of aiida-submission-controller: FromGroupSubmissionController   *)
(* (from_group.py) on top of BaseSubmissionController (base.py).           *)
(*                                                                         *)
(* The controller keeps no state of its own between calls: what it knows   *)
(* lives in the AiiDA database, modelled by `nodes` (the process nodes the *)
(* engine created), `group` (the pks of the nodes in the controller's      *)
(* group) and `parent_group` (the extras of the nodes of the parent group, *)
(* the work catalog).  One call of submit_new_batch is a sequence of       *)
(* steps (one per query of the selection loop, one per item of the         *)
(* submission loop) between which processes may seal.                      *)
(*                                                                         *)
(* Not modelled: the `verbose` argument (logging level and the status      *)
(* table, which only read), the `filters` of the parent group query        *)
(* (None) and the delay between submissions.                               *)
(***************************************************************************)
EXTENDS Integers, Sequences, FiniteSets, TLC

VARIABLES
    pc,             \* per controller: where it stands
    max_concurrent, \* per controller: the field max_concurrent
    order_by,       \* per controller: the field _order_by of FromGroupSubmissionController
    wc_node,        \* per controller: local of submit_new_batch, the pk of the node engine.submit returned
    parent_group,   \* rows of the parent group query: one tuple of extras per node
    nodes,          \* the process nodes of the database, by pk
    group,          \* pks of the nodes in the group `group_label`
    env,            \* what get_inputs_and_processclass_from_extras / engine.submit do per key
    dry_run,        \* per controller: argument of the running call
    sort,           \* per controller: argument of the running call
    extras_to_run,  \* per controller: local of submit_new_batch
    to_submit,      \* per controller: local of submit_new_batch
    cursor,         \* per controller: position of the submission loop in to_submit
    submitted,      \* per controller: local of submit_new_batch
    returned,       \* per controller: the value the last call returned
    raised,         \* per controller: the exception the last call (or the constructor) raised
    hist            \* per controller: what the running call did (observation only)

vars == <<pc, max_concurrent, order_by, wc_node, parent_group, nodes, group, env, dry_run, sort,
          extras_to_run, to_submit, cursor, submitted, returned, raised, hist>>

---------------------------------------------------------------------------
(* Bounds *)

\* the unique extra takes the values 1..MaxKey
MaxKey == 3
\* the parent group holds at most MaxCatalog nodes
MaxCatalog == 3
\* the largest max_concurrent a controller is constructed with
MaxMC == 3

---------------------------------------------------------------------------
(* Values *)

\* Python's None; extras values are 1..MaxKey
None == 0

\* no exception
NoError == "NoError"

Ctrl == {1, 2}

Values == 1 .. MaxKey

\* the field unique_extra_keys (base.py:37)
unique_extra_keys == <<"a">>

\* tuples of extras values, in the order of unique_extra_keys
Tuples(S) == [1 .. Len(unique_extra_keys) -> S]

Keys == Tuples(Values)

Range(s) == {s[i] : i \in DOMAIN s}

Max(a, b) == IF a >= b THEN a ELSE b

\* a Python dict (and a node's extras or attributes) is the set of its <<key, value>> items
EmptyDict == {}

DictKeys(d) == {kv[1] : kv \in d}

DictGet(d, k) == (CHOOSE kv \in d : kv[1] = k)[2]

DictPut(d, k, v) == {kv \in d : kv[1] # k} \cup {<<k, v>>}

\* Python's tuple comparison: lexicographic
TupleLess(a, b) ==
    \E i \in 1 .. Len(a) :
        /\ \A j \in 1 .. (i - 1) : a[j] = b[j]
        /\ a[i] < b[i]

RECURSIVE sorted_reverse(_)
\* mutant of sorted: descending order
sorted_reverse(S) ==
    IF S = {} THEN << >>
    ELSE LET m == CHOOSE x \in S : \A y \in S : x = y \/ TupleLess(y, x)
         IN  <<m>> \o sorted_reverse(S \ {m})

RECURSIVE sorted(_)
\* sorted(extras_to_run), base.py:168
sorted(S) ==
    IF S = {} THEN << >>
    ELSE LET m == CHOOSE x \in S : \A y \in S : x = y \/ TupleLess(x, y)
         IN  <<m>> \o sorted(S \ {m})

\* the orders in which iterating a Python set may yield its elements
Orderings(S) ==
    {s \in [1 .. Cardinality(S) -> S] : \A i, j \in DOMAIN s : i # j => s[i] # s[j]}

IsSorted(s) == \A i \in 1 .. (Len(s) - 1) : s[i] = s[i + 1] \/ TupleLess(s[i], s[i + 1])

\* the parent groups considered: rows are listed in ascending order, as a
\* representative of each multiset of rows
Catalogs ==
    UNION {{s \in [1 .. n -> Tuples(Values \cup {None})] : IsSorted(s)} : n \in 0 .. MaxCatalog}

\* mutant of ExpectedErrors: `except Exception`
ExpectedErrorsBroad == {"ValueError", "TypeError", "AttributeError", "RuntimeError"}

\* (ValueError, TypeError, AttributeError), base.py:212
ExpectedErrors == {"ValueError", "TypeError", "AttributeError"}

Exceptions == ExpectedErrors \cup {"RuntimeError"}

Ok == [at |-> "none", exc |-> NoError]

\* what an attempt on one key may do: succeed, or raise in
\* get_inputs_and_processclass_from_extras ("inputs") or in engine.submit ("engine")
Outcomes == {Ok} \cup {[at |-> a, exc |-> e] : a \in {"inputs", "engine"}, e \in Exceptions}

\* the labels of the groups that exist in the database
ExistingGroups == {"processes", "parent"}

---------------------------------------------------------------------------
(* Queries, base.py *)

\* filters of get_query(only_active=True), base.py:60-66
IsActive(node) ==
    IF "sealed" \notin DictKeys(node.attributes)
    THEN TRUE
    ELSE DictGet(node.attributes, "sealed") = FALSE

\* the projection "extras.<name>" of a node
Project(node, name) ==
    IF name \in DictKeys(node.extras) THEN DictGet(node.extras, name) ELSE None

get_process_extra_projections == unique_extra_keys

\* the pks get_query selects, base.py:47-76
get_query(only_active) ==
    {p \in group : only_active => IsActive(nodes[p])}

\* data[:-1] of one row of the query of get_all_submitted_pks
RowExtras(p) ==
    [i \in 1 .. Len(get_process_extra_projections) |->
        Project(nodes[p], get_process_extra_projections[i])]

RECURSIVE Arrangements(_)
\* the lists that hold each element of the set S once
Arrangements(S) ==
    IF S = {} THEN {<< >>}
    ELSE UNION {{<<x>> \o s : s \in Arrangements(S \ {x})} : x \in S}

\* qbuild.all() of get_query: the query has no order_by, the database returns
\* the rows in an order of its choice
QueryRows(only_active) == Arrangements(get_query(only_active))

\* mutant of get_all_submitted_pks: the rows with a missing extra are kept
get_all_submitted_pks_unfiltered(rows) ==
    {<<RowExtras(rows[i]), rows[i]>> :
        i \in {i \in DOMAIN rows :
                  \A j \in DOMAIN rows : RowExtras(rows[j]) = RowExtras(rows[i]) => j <= i}}

\* base.py:88-110, on the rows `rows` of the query in the order they are read:
\* a row with a missing extra is skipped (lines 105-107), and the assignment of
\* line 108 overwrites, so that on equal extras the row read last stays
get_all_submitted_pks(rows) ==
    LET kept == {i \in DOMAIN rows : \A e \in DOMAIN RowExtras(rows[i]) : RowExtras(rows[i])[e] # None}
    IN  {<<RowExtras(rows[i]), rows[i]>> :
            i \in {i \in kept : \A j \in kept : RowExtras(rows[j]) = RowExtras(rows[i]) => j <= i}}

\* mutant of _check_submitted_extras: only the active processes are looked up
_check_submitted_extras_active == {RowExtras(p) : p \in get_query(TRUE)}

\* the rows of the set S of pks in ascending order of pk, one of Arrangements(S)
RowsByPk(S) == SelectSeq([p \in 1 .. Len(nodes) |-> p], LAMBDA p : p \in S)

\* base.py:133-135: the keys of get_all_submitted_pks(). The order of the rows
\* decides the pk kept for a key and not the keys (KnownKeysWhateverOrder), so
\* the keys are computed on the rows in ascending order of pk
_check_submitted_extras == DictKeys(get_all_submitted_pks(RowsByPk(get_query(FALSE))))

\* mutant of _count_active_in_group: the sealed processes are counted too
_count_all_in_group == Cardinality(get_query(FALSE))

\* base.py:137-140
_count_active_in_group == Cardinality(get_query(TRUE))

\* base.py:142-145
num_active_slots == _count_active_in_group

\* base.py:147-150
num_available_slots(c) == Max(0, max_concurrent[c] - num_active_slots)

---------------------------------------------------------------------------
(* The work catalog, from_group.py *)

\* the list s from its last element to its first
Reverse(s) == [i \in 1 .. Len(s) |-> s[Len(s) + 1 - i]]

\* the orders a FromGroupSubmissionController is constructed with: on the
\* unique extras, ascending or descending
\* from_group.py:13: order_by=None
NoOrderBy == "None"

OrderBys == {"asc", "desc"}

\* from_group.py:99-105: qbuild.all(), after qbuild.order_by(self.order_by)
\* when an order is given; `rows` are the rows in ascending order
QueryAll(rows, ob) == IF ob = "desc" THEN Reverse(rows) ELSE rows

\* mutant of get_all_extras_to_submit: the duplicates are merged silently
get_all_extras_to_submit_unchecked(c) ==
    IF \E i \in DOMAIN parent_group : \E j \in DOMAIN parent_group[i] : parent_group[i][j] = None
    THEN [exc |-> "AssertionError", value |-> {}]
    ELSE [exc |-> NoError, value |-> Range(parent_group)]

\* from_group.py:78-116: the set of the rows, or AssertionError
get_all_extras_to_submit(c) ==
    LET results == QueryAll(parent_group, order_by[c])
        results_set == Range(results)
    IN  IF \E i \in DOMAIN results : \E j \in DOMAIN results[i] : results[i][j] = None
        THEN [exc |-> "AssertionError", value |-> {}]
        ELSE IF Len(results) # Cardinality(results_set)
        THEN [exc |-> "AssertionError", value |-> {}]
        ELSE [exc |-> NoError, value |-> results_set]

\* base.py:152-155
num_to_run(c) ==
    LET target == get_all_extras_to_submit(c)
    IN  IF target.exc # NoError
        THEN [exc |-> target.exc, value |-> None]
        ELSE [exc |-> NoError, value |-> Cardinality(target.value \ _check_submitted_extras)]

\* base.py:157-160
num_already_run == Cardinality(_check_submitted_extras)

---------------------------------------------------------------------------
(* Initial state: nothing constructed, an existing and empty group *)

\* n0: the number of nodes when the call started; a0: the number of active
\* processes of the group when the call started; factory_calls, engine_calls:
\* the keys get_inputs_and_processclass_from_extras and engine.submit were called
\* with; failed: the keys whose attempt raised; last_exc: what the last of them
\* raised; disturbed: a process sealed, or the parent group changed, during the call
NoHist == [n0 |-> 0, a0 |-> 0, factory_calls |-> << >>, engine_calls |-> << >>,
           failed |-> << >>, last_exc |-> NoError, disturbed |-> FALSE]

Init ==
    /\ pc = [c \in Ctrl |-> "new"]
    /\ max_concurrent = [c \in Ctrl |-> None]
    /\ parent_group \in Catalogs
    /\ order_by = [c \in Ctrl |-> NoOrderBy]
    /\ wc_node = [c \in Ctrl |-> None]
    /\ nodes = << >>
    /\ group = {}
    /\ env = [k \in Keys |-> Outcomes]
    /\ dry_run = [c \in Ctrl |-> FALSE]
    /\ sort = [c \in Ctrl |-> TRUE]
    /\ extras_to_run = [c \in Ctrl |-> << >>]
    /\ to_submit = [c \in Ctrl |-> << >>]
    /\ cursor = [c \in Ctrl |-> 1]
    /\ submitted = [c \in Ctrl |-> EmptyDict]
    /\ returned = [c \in Ctrl |-> EmptyDict]
    /\ raised = [c \in Ctrl |-> NoError]
    /\ hist = [c \in Ctrl |-> NoHist]

---------------------------------------------------------------------------
(* Construction *)

\* validate_group_exists, base.py:17-24: the only validator of the model's fields
validate_group_exists(value) == value \in ExistingGroups

\* the major releases of pydantic the package runs on (base.py:9 imports
\* BaseModel and validator, which both have); the sources do not fix one
PydanticReleases == {1, 2}

\* pydantic's validation of the fields (base.py:33-40), then
\* FromGroupSubmissionController.__init__ (from_group.py:25-31).  Line 26
\* assigns self._parent_group_label, an attribute the class does not declare:
\* a BaseModel of pydantic 1 refuses the assignment with a ValueError, so that
\* no construction succeeds there; a BaseModel of pydantic 2 stores it as a
\* private attribute.  `pydantic` is the release that is installed.
Construct(c, group_label, parent_group_label, ob, mc, pydantic) ==
    /\ pc[c] = "new"
    /\ IF ~validate_group_exists(group_label)
       THEN /\ pc' = [pc EXCEPT ![c] = "invalid"]
            /\ raised' = [raised EXCEPT ![c] = "ValueError"]
            /\ UNCHANGED <<max_concurrent, order_by>>
       ELSE IF pydantic = 1
       THEN /\ pc' = [pc EXCEPT ![c] = "invalid"]
            /\ raised' = [raised EXCEPT ![c] = "ValueError"]
            /\ UNCHANGED <<max_concurrent, order_by>>
       ELSE IF parent_group_label \notin ExistingGroups
       THEN /\ pc' = [pc EXCEPT ![c] = "invalid"]
            /\ raised' = [raised EXCEPT ![c] = "NotExistent"]
            /\ UNCHANGED <<max_concurrent, order_by>>
       ELSE /\ pc' = [pc EXCEPT ![c] = "ready"]
            /\ max_concurrent' = [max_concurrent EXCEPT ![c] = mc]
            /\ order_by' = [order_by EXCEPT ![c] = ob]
            /\ UNCHANGED raised
    /\ UNCHANGED <<wc_node, parent_group, nodes, group, env, dry_run, sort, extras_to_run,
                   to_submit, cursor, submitted, returned, hist>>

---------------------------------------------------------------------------
(* submit_new_batch, base.py:162-221 *)

\* lines 165-168: the call starts and computes extras_to_run.  The argument
\* `verbose` is read once the selection is over (line 177) and nowhere else
\* that matters here: it is an input of SelectDone
SubmitNewBatch(c, d, s) ==
    /\ pc[c] = "ready"
    /\ dry_run' = [dry_run EXCEPT ![c] = d]
    /\ sort' = [sort EXCEPT ![c] = s]
    /\ to_submit' = [to_submit EXCEPT ![c] = << >>]
    /\ cursor' = [cursor EXCEPT ![c] = 1]
    /\ submitted' = [submitted EXCEPT ![c] = EmptyDict]
    /\ returned' = [returned EXCEPT ![c] = EmptyDict]
    /\ hist' = [hist EXCEPT ![c] = [NoHist EXCEPT !.n0 = Len(nodes), !.a0 = _count_active_in_group]]
    /\ LET target == get_all_extras_to_submit(c)
       IN  IF target.exc # NoError
           THEN /\ pc' = [pc EXCEPT ![c] = "raised"]
                /\ raised' = [raised EXCEPT ![c] = target.exc]
                /\ extras_to_run' = [extras_to_run EXCEPT ![c] = << >>]
           ELSE LET pending == target.value \ _check_submitted_extras
                IN  /\ pc' = [pc EXCEPT ![c] = "select"]
                    /\ raised' = [raised EXCEPT ![c] = NoError]
                    /\ \E order \in (IF s THEN {sorted(pending)} ELSE Orderings(pending)) :
                          extras_to_run' = [extras_to_run EXCEPT ![c] = order]
    /\ UNCHANGED <<max_concurrent, order_by, wc_node, parent_group, nodes, group, env>>

\* mutant of SlotsFull: the active count is the one read when the call started
SlotsFullSnapshot(c) == Len(to_submit[c]) + hist[c].a0 >= max_concurrent[c]

\* mutant of SlotsFull: > for >=
SlotsFullOffByOne(c) == Len(to_submit[c]) + _count_active_in_group > max_concurrent[c]

\* line 170: the test that ends the selection loop
SlotsFull(c) == Len(to_submit[c]) + _count_active_in_group >= max_concurrent[c]

\* lines 169-172: one iteration of the selection loop that appends
SelectNext(c) ==
    /\ pc[c] = "select"
    /\ Len(to_submit[c]) < Len(extras_to_run[c])
    /\ ~SlotsFull(c)
    /\ to_submit' = [to_submit EXCEPT ![c] = Append(@, extras_to_run[c][Len(@) + 1])]
    /\ UNCHANGED <<pc, max_concurrent, order_by, wc_node, parent_group, nodes, group, env, dry_run, sort,
                   extras_to_run, cursor, submitted, returned, raised, hist>>

\* mutant of IsDryRun: the argument is ignored
IsDryRunIgnored(c) == FALSE

\* line 174: if dry_run
IsDryRun(c) == dry_run[c]

\* line 175: what a dry run returns
DryRunResult(c) == {<<key, None>> : key \in Range(to_submit[c])}

\* lines 169-201: the selection loop ends (exhausted, or break); a dry run
\* returns (174-175); otherwise a verbose call prints the status table
\* (177-201), whose row reads self.num_to_run (line 190): that raises the
\* AssertionError of get_all_extras_to_submit when the parent group is broken
\* by then, with the selection made and nothing submitted
SelectDone(c, verbose) ==
    /\ pc[c] = "select"
    /\ Len(to_submit[c]) = Len(extras_to_run[c]) \/ SlotsFull(c)
    /\ IF IsDryRun(c)
       THEN /\ pc' = [pc EXCEPT ![c] = "returned"]
            /\ returned' = [returned EXCEPT ![c] = DryRunResult(c)]
            /\ UNCHANGED raised
       ELSE IF verbose /\ num_to_run(c).exc # NoError
       THEN /\ pc' = [pc EXCEPT ![c] = "raised"]
            /\ raised' = [raised EXCEPT ![c] = num_to_run(c).exc]
            /\ UNCHANGED returned
       ELSE /\ pc' = [pc EXCEPT ![c] = "submit"]
            /\ UNCHANGED <<returned, raised>>
    /\ UNCHANGED <<max_concurrent, order_by, wc_node, parent_group, nodes, group, env, dry_run, sort,
                   extras_to_run, to_submit, cursor, submitted, hist>>

\* the key of the running iteration of the submission loop
workchain_extras(c) == to_submit[c][cursor[c]]

InLoop(c) == pc[c] = "submit" /\ cursor[c] <= Len(to_submit[c])

\* mutant of ZipExtras: no extras are set
ZipExtrasNone(key) == EmptyDict

\* line 217: dict(zip(self.get_extra_unique_keys(), workchain_extras))
ZipExtras(key) ==
    {<<unique_extra_keys[i], key[i]>> : i \in DOMAIN unique_extra_keys}

\* the node engine.submit creates (line 210): no extras, not sealed
NewNode(key) == [inputs |-> key, extras |-> EmptyDict, attributes |-> EmptyDict]

\* mutant of AddNodes: the group is left with the new node alone
AddNodesReplace(g, pk) == {pk}

\* mutant of AddNodes: the node is not added
AddNodesSkipped(g, pk) == g

\* line 218: self.group.add_nodes([wc_node])
AddNodes(g, pk) == g \cup {pk}

\* lines 207-210, no exception: the payload is built and engine.submit stores
\* the node of the new process, which runs from now on
SubmitOk(c) ==
    /\ InLoop(c)
    /\ Ok \in env[workchain_extras(c)]
    /\ LET key == workchain_extras(c)
           pk == Len(nodes) + 1
       IN  /\ nodes' = Append(nodes, NewNode(key))
           /\ wc_node' = [wc_node EXCEPT ![c] = pk]
           /\ hist' = [hist EXCEPT ![c].factory_calls = Append(@, key),
                                   ![c].engine_calls = Append(@, key)]
    /\ pc' = [pc EXCEPT ![c] = "started"]
    /\ UNCHANGED <<max_concurrent, order_by, parent_group, group, env, dry_run, sort,
                   extras_to_run, to_submit, cursor, submitted, returned, raised>>

\* line 217: wc_node.set_extra_many(...)
SetExtraMany(c) ==
    /\ pc[c] = "started"
    /\ nodes' = [nodes EXCEPT ![wc_node[c]].extras = ZipExtras(workchain_extras(c))]
    /\ pc' = [pc EXCEPT ![c] = "tagged"]
    /\ UNCHANGED <<max_concurrent, order_by, wc_node, parent_group, group, env, dry_run, sort,
                   extras_to_run, to_submit, cursor, submitted, returned, raised, hist>>

\* lines 218-219: the node is put in the group and in the mapping; the for
\* loop takes the next key
GroupAddNodes(c) ==
    /\ pc[c] = "tagged"
    /\ group' = AddNodes(group, wc_node[c])
    /\ submitted' = [submitted EXCEPT ![c] = DictPut(@, workchain_extras(c), wc_node[c])]
    /\ cursor' = [cursor EXCEPT ![c] = @ + 1]
    /\ wc_node' = [wc_node EXCEPT ![c] = None]
    /\ pc' = [pc EXCEPT ![c] = "submit"]
    /\ UNCHANGED <<max_concurrent, order_by, parent_group, nodes, env, dry_run, sort,
                   extras_to_run, to_submit, returned, raised, hist>>

\* what the calls of one attempt that raises `o` leave in the observation
Attempted(h, key, o) ==
    [h EXCEPT !.factory_calls = Append(@, key),
              !.engine_calls = IF o.at = "engine" THEN Append(@, key) ELSE @,
              !.failed = Append(@, key),
              !.last_exc = o.exc]

\* mutant of CursorAfterError: the key that failed is tried again
CursorAfterErrorRetry(c) == cursor[c]

\* mutant of CursorAfterError: the except clause leaves the loop
CursorAfterErrorBreak(c) == Len(to_submit[c]) + 1

\* lines 204, 212-213: after the except clause the for loop takes the next key
CursorAfterError(c) == cursor[c] + 1

\* lines 212-213: an exception of an expected kind is logged, the loop goes on
SubmitExpectedError(c) ==
    /\ InLoop(c)
    /\ \E o \in env[workchain_extras(c)] :
          /\ o.exc \in ExpectedErrors
          /\ hist' = [hist EXCEPT ![c] = Attempted(@, workchain_extras(c), o)]
    /\ cursor' = [cursor EXCEPT ![c] = CursorAfterError(c)]
    /\ UNCHANGED <<pc, max_concurrent, order_by, wc_node, parent_group, nodes, group, env, dry_run, sort,
                   extras_to_run, to_submit, submitted, returned, raised>>

\* any other exception leaves submit_new_batch
SubmitUnexpectedError(c) ==
    /\ InLoop(c)
    /\ \E o \in env[workchain_extras(c)] :
          /\ o.exc \notin ExpectedErrors \cup {NoError}
          /\ hist' = [hist EXCEPT ![c] = Attempted(@, workchain_extras(c), o)]
          /\ raised' = [raised EXCEPT ![c] = o.exc]
    /\ pc' = [pc EXCEPT ![c] = "raised"]
    /\ UNCHANGED <<max_concurrent, order_by, wc_node, parent_group, nodes, group, env, dry_run, sort,
                   extras_to_run, to_submit, cursor, submitted, returned>>

\* line 221: return submitted
ReturnSubmitted(c) ==
    /\ pc[c] = "submit"
    /\ cursor[c] > Len(to_submit[c])
    /\ pc' = [pc EXCEPT ![c] = "returned"]
    /\ returned' = [returned EXCEPT ![c] = submitted[c]]
    /\ UNCHANGED <<max_concurrent, order_by, wc_node, parent_group, nodes, group, env, dry_run, sort,
                   extras_to_run, to_submit, cursor, submitted, raised, hist>>

\* the frame of a call that returned or raised is gone: its locals, and what
\* the caller was handed, are dropped before the next call
CallEnds(c) ==
    /\ pc[c] \in {"returned", "raised"}
    /\ pc' = [pc EXCEPT ![c] = "ready"]
    /\ dry_run' = [dry_run EXCEPT ![c] = FALSE]
    /\ sort' = [sort EXCEPT ![c] = TRUE]
    /\ extras_to_run' = [extras_to_run EXCEPT ![c] = << >>]
    /\ to_submit' = [to_submit EXCEPT ![c] = << >>]
    /\ cursor' = [cursor EXCEPT ![c] = 1]
    /\ submitted' = [submitted EXCEPT ![c] = EmptyDict]
    /\ returned' = [returned EXCEPT ![c] = EmptyDict]
    /\ raised' = [raised EXCEPT ![c] = NoError]
    /\ hist' = [hist EXCEPT ![c] = NoHist]
    /\ UNCHANGED <<max_concurrent, order_by, wc_node, parent_group, nodes, group, env>>

---------------------------------------------------------------------------
(* The environment.  A state in which a call has just returned or raised is
   the instant of the return: the environment moves again once the caller
   has the result (CallEnds). *)

InCall(c) == pc[c] \in {"select", "submit", "started", "tagged"}

AtReturn == \E c \in Ctrl : pc[c] \in {"returned", "raised"}

\* the engine seals a process that ended: attributes.sealed becomes True
Seal(p) ==
    /\ ~AtReturn
    /\ p \in DOMAIN nodes
    /\ IsActive(nodes[p])
    /\ nodes' = [nodes EXCEPT ![p].attributes = DictPut(@, "sealed", TRUE)]
    /\ hist' = [c \in Ctrl |-> IF InCall(c) THEN [hist[c] EXCEPT !.disturbed = TRUE] ELSE hist[c]]
    /\ UNCHANGED <<pc, max_concurrent, order_by, wc_node, parent_group, group, env, dry_run, sort,
                   extras_to_run, to_submit, cursor, submitted, returned, raised>>

\* `rows` with one more row, in ascending order
RECURSIVE Insert(_, _)
Insert(rows, row) ==
    IF rows = << >> THEN <<row>>
    ELSE IF TupleLess(row, Head(rows)) THEN <<row>> \o rows
    ELSE <<Head(rows)>> \o Insert(Tail(rows), row)

\* the user adds a node to the parent group
AddToParentGroup(row) ==
    /\ ~AtReturn
    /\ Len(parent_group) < MaxCatalog
    /\ parent_group' = Insert(parent_group, row)
    /\ hist' = [c \in Ctrl |-> IF InCall(c) THEN [hist[c] EXCEPT !.disturbed = TRUE] ELSE hist[c]]
    /\ UNCHANGED <<pc, max_concurrent, order_by, wc_node, nodes, group, env, dry_run, sort,
                   extras_to_run, to_submit, cursor, submitted, returned, raised>>

---------------------------------------------------------------------------
(* A single controller *)

McValues == {0 - 1, 0} \cup (1 .. MaxMC)

Step(c) ==
    \/ \E g \in {"processes", "missing"}, pg \in {"parent", "missing"}, mc \in McValues,
          pydantic \in PydanticReleases :
          Construct(c, g, pg, NoOrderBy, mc, pydantic)
    \/ \E d \in BOOLEAN, s \in BOOLEAN : SubmitNewBatch(c, d, s)
    \/ SelectNext(c)
    \/ \E verbose \in BOOLEAN : SelectDone(c, verbose)
    \/ SubmitOk(c)
    \/ SetExtraMany(c)
    \/ GroupAddNodes(c)
    \/ SubmitExpectedError(c)
    \/ SubmitUnexpectedError(c)
    \/ ReturnSubmitted(c)
    \/ CallEnds(c)

Next ==
    \/ Step(1)
    \/ \E p \in DOMAIN nodes : Seal(p)
    \/ \E row \in Tuples(Values \cup {None}) : AddToParentGroup(row)

Spec == Init /\ [][Next]_vars

---------------------------------------------------------------------------
(* A single controller called again and again with the default arguments, on
   a fixed catalog of distinct keys one of which always fails with an expected
   kind of error, while every process that runs ends at some time. *)

\* the outcomes of a key whose attempt always fails with an expected kind
AlwaysFails == {o \in Outcomes : o.exc \in ExpectedErrors}

InitStall ==
    /\ pc = [c \in Ctrl |-> IF c = 1 THEN "ready" ELSE "new"]
    /\ \E mc \in 1 .. MaxMC : max_concurrent = [c \in Ctrl |-> IF c = 1 THEN mc ELSE None]
    /\ parent_group \in {s \in Catalogs : Range(s) \subseteq Keys /\ Cardinality(Range(s)) = Len(s)
                                          /\ Len(s) >= 2}
    /\ order_by = [c \in Ctrl |-> NoOrderBy]
    /\ wc_node = [c \in Ctrl |-> None]
    /\ nodes = << >>
    /\ group = {}
    /\ \E bad \in Range(parent_group) :
          env = [k \in Keys |-> IF k = bad THEN AlwaysFails ELSE {Ok}]
    /\ dry_run = [c \in Ctrl |-> FALSE]
    /\ sort = [c \in Ctrl |-> TRUE]
    /\ extras_to_run = [c \in Ctrl |-> << >>]
    /\ to_submit = [c \in Ctrl |-> << >>]
    /\ cursor = [c \in Ctrl |-> 1]
    /\ submitted = [c \in Ctrl |-> EmptyDict]
    /\ returned = [c \in Ctrl |-> EmptyDict]
    /\ raised = [c \in Ctrl |-> NoError]
    /\ hist = [c \in Ctrl |-> NoHist]

StepStall(c) ==
    \/ SubmitNewBatch(c, FALSE, TRUE)
    \/ SelectNext(c)
    \/ SelectDone(c, FALSE)
    \/ SubmitOk(c)
    \/ SetExtraMany(c)
    \/ GroupAddNodes(c)
    \/ SubmitExpectedError(c)
    \/ ReturnSubmitted(c)
    \/ CallEnds(c)

NextStall ==
    \/ StepStall(1)
    \/ \E p \in DOMAIN nodes : Seal(p)

\* the caller keeps calling and each call runs to its end; the engine seals
\* every process it runs, whatever the controller is doing
SpecStall ==
    /\ InitStall
    /\ [][NextStall]_vars
    /\ WF_vars(StepStall(1))
    /\ \A p \in 1 .. MaxKey : SF_vars(Seal(p))

---------------------------------------------------------------------------
(* Properties *)

Min(a, b) == IF a <= b THEN a ELSE b

\* target - known, in the current state
Pending == Range(parent_group) \ {RowExtras(p) : p \in group}

\* the nodes created since controller c's call started
NewNodes(c) == {p \in DOMAIN nodes : p > hist[c].n0}

\* controller c takes a step of its call
Moves(c) == <<pc[c], to_submit[c], cursor[c]>>' # <<pc[c], to_submit[c], cursor[c]>>

\* C1. No double submission: the engine never starts two processes for the
\* same key, and no two nodes of the group carry the same unique extras.
NoDoubleSubmission ==
    /\ \A p, q \in DOMAIN nodes : p # q => nodes[p].inputs # nodes[q].inputs
    /\ \A p, q \in group : p # q => RowExtras(p) # RowExtras(q)

\* C1 happens: a later call starts a process while an earlier one is sealed
\* and after an attempt of this call failed.
WitnessNoDoubleSubmission ==
    /\ hist[1].n0 >= 1
    /\ Len(nodes) > hist[1].n0
    /\ hist[1].failed # << >>
    /\ \E p \in group : ~IsActive(nodes[p])

\* C2. Capacity bound: when a call has returned and nothing sealed during it,
\* the number of active processes of the group is at most max_concurrent.
CapacityBound ==
    \A c \in Ctrl :
        (pc[c] = "returned" /\ ~hist[c].disturbed) =>
            _count_active_in_group <= max_concurrent[c]

\* C2, for the controllers whose max_concurrent is not negative.
CapacityBoundNonNegative ==
    \A c \in Ctrl :
        (pc[c] = "returned" /\ ~hist[c].disturbed /\ max_concurrent[c] >= 0) =>
            _count_active_in_group <= max_concurrent[c]

\* C3. Dry-run purity: no step of a call with dry_run=True changes a node or
\* the group or calls the payload factory or the engine, the call never enters
\* the submission loop, and it returns None for every key of the batch.
DryRunPurity ==
    /\ [][\A c \in Ctrl :
            (dry_run'[c] /\ Moves(c)) =>
                /\ nodes' = nodes
                /\ group' = group
                /\ hist'[c].factory_calls = << >>
                /\ hist'[c].engine_calls = << >>]_vars
    /\ [](\A c \in Ctrl :
            dry_run[c] =>
                /\ pc[c] # "submit"
                /\ pc[c] = "returned" =>
                      /\ DictKeys(returned[c]) = Range(to_submit[c])
                      /\ \A kv \in returned[c] : kv[2] = None)

\* C3 happens: a dry run returned a non-empty batch on a non-empty store.
WitnessDryRunPurity ==
    /\ pc[1] = "returned"
    /\ dry_run[1]
    /\ returned[1] # EmptyDict
    /\ nodes # << >>

\* the selection loop of controller c is over and nothing was submitted yet
SelectionOver(c) ==
    \/ pc[c] = "submit" /\ cursor[c] = 1
    \/ pc[c] = "returned" /\ dry_run[c]

\* C4. Batch selection with sort=True: the batch is the ascending list of the
\* min(|pending|, max(0, max_concurrent - active)) smallest pending keys, a
\* function of the catalog and the store alone.
BatchSelection ==
    \A c \in Ctrl :
        (sort[c] /\ SelectionOver(c) /\ ~hist[c].disturbed) =>
            /\ Range(to_submit[c]) \subseteq Pending
            /\ \A i, j \in DOMAIN to_submit[c] :
                  i < j => TupleLess(to_submit[c][i], to_submit[c][j])
            /\ \A k \in Pending \ Range(to_submit[c]) :
                  \A i \in DOMAIN to_submit[c] : TupleLess(to_submit[c][i], k)
            /\ Len(to_submit[c]) =
                  Min(Cardinality(Pending),
                      Max(0, max_concurrent[c] - Cardinality({p \in group : IsActive(nodes[p])})))

\* C4 happens: capacity is scarce, with active processes and more pending
\* keys than slots.
WitnessBatchSelection ==
    /\ sort[1] /\ SelectionOver(1) /\ ~hist[1].disturbed
    /\ Len(to_submit[1]) >= 1
    /\ Len(to_submit[1]) < Cardinality(Pending)
    /\ _count_active_in_group >= 1

\* C5. Partial failure isolation: the submission loop attempts every key of
\* the batch in order whatever failed before; at the return the mapping holds
\* the keys that did not fail and the store gained one node per such key.
PartialFailureIsolation ==
    \A c \in Ctrl :
        /\ pc[c] = "submit" =>
              hist[c].factory_calls = SubSeq(to_submit[c], 1, cursor[c] - 1)
        /\ (pc[c] = "returned" /\ ~dry_run[c]) =>
              /\ hist[c].factory_calls = to_submit[c]
              /\ DictKeys(returned[c]) = Range(to_submit[c]) \ Range(hist[c].failed)
              /\ Cardinality(NewNodes(c)) = Len(to_submit[c]) - Len(hist[c].failed)

\* C5 happens: a batch of 3 whose second key failed returned the 1st and the
\* 3rd, with 2 new nodes.
WitnessPartialFailureIsolation ==
    /\ pc[1] = "returned" /\ ~dry_run[1]
    /\ Len(to_submit[1]) = 3
    /\ hist[1].failed = <<to_submit[1][2]>>
    /\ DictKeys(returned[1]) = {to_submit[1][1], to_submit[1][3]}
    /\ Cardinality(NewNodes(1)) = 2

\* the parent group yields a row twice, or a row with a missing extra
CatalogBroken ==
    \/ \E i \in DOMAIN parent_group : \E j \in DOMAIN parent_group[i] : parent_group[i][j] = None
    \/ \E i, j \in DOMAIN parent_group : i # j /\ parent_group[i] = parent_group[j]

\* C6. Catalog integrity: a call (dry run or not) started on a broken catalog
\* raises AssertionError at once; it selects nothing, calls neither the
\* payload factory nor the engine and leaves the store as it was.  The one
\* other place where a call reads the catalog is the status table of a verbose
\* call, after the selection: a catalog found broken there (it was broken
\* during the selection) ends the call in the same way, with a selection made
\* and, again, no call of the payload factory or of the engine and the store
\* as it was.
CatalogIntegrity ==
    /\ [][\A c \in Ctrl :
            /\ (pc[c] = "ready" /\ pc'[c] # "ready" /\ CatalogBroken) =>
                    /\ pc'[c] = "raised"
                    /\ raised'[c] = "AssertionError"
                    /\ to_submit'[c] = << >>
                    /\ nodes' = nodes
                    /\ group' = group
            /\ (pc[c] = "select" /\ pc'[c] = "raised") =>
                    /\ CatalogBroken
                    /\ hist[c].disturbed
                    /\ ~dry_run[c]
                    /\ raised'[c] = "AssertionError"
                    /\ nodes' = nodes
                    /\ group' = group]_vars
    /\ [](\A c \in Ctrl :
            (pc[c] = "raised" /\ raised[c] = "AssertionError") =>
                /\ CatalogBroken
                /\ to_submit[c] # << >> => hist[c].disturbed
                /\ hist[c].factory_calls = << >>
                /\ hist[c].engine_calls = << >>
                /\ NewNodes(c) = {}
                /\ submitted[c] = EmptyDict)

\* C6 happens: a call raised AssertionError on a store that holds nodes.
WitnessCatalogIntegrity ==
    /\ pc[1] = "raised"
    /\ raised[1] = "AssertionError"
    /\ CatalogBroken
    /\ nodes # << >>

\* what C7 says of the call of controller c that returned: the mapping is
\* exactly {extras of n -> n} over the nodes created during the call, all of
\* them in the group with every unique extra set; no failed key is in it and
\* nothing was raised
MappingIsNewRecords(c) ==
    /\ NewNodes(c) \subseteq group
    /\ returned[c] = {<<RowExtras(p), p>> : p \in NewNodes(c)}
    /\ \A p \in NewNodes(c) : RowExtras(p) \in Keys
    /\ DictKeys(returned[c]) \cap Range(hist[c].failed) = {}
    /\ raised[c] = NoError

\* C7. Result mapping matches store writes: at the normal return of a call
\* that is no dry run, a key is in the mapping if and only if a new record for
\* it, with its unique extras set and unsealed, was added to the group during
\* the call: every node is unsealed when it enters the group.
ResultMatchesStoreUnsealed ==
    /\ [](\A c \in Ctrl : (pc[c] = "returned" /\ ~dry_run[c]) => MappingIsNewRecords(c))
    /\ [][\A p \in group' \ group :
             /\ RowExtras(p)' = nodes[p].inputs
             /\ IsActive(nodes'[p])]_vars

\* C7, amended: at the normal return of a call that is no dry run, a key is
\* in the mapping if and only if a new record for it, with its unique extras
\* set, was added to the group during the call. engine.submit creates the node
\* unsealed and the call that created it puts it in the group, tagged with its
\* key; the node may be sealed by then.
ResultMatchesStore ==
    /\ [](\A c \in Ctrl : (pc[c] = "returned" /\ ~dry_run[c]) => MappingIsNewRecords(c))
    /\ [][/\ \A p \in DOMAIN nodes' \ DOMAIN nodes : IsActive(nodes'[p])
          /\ \A p \in group' \ group :
                /\ RowExtras(p)' = nodes[p].inputs
                /\ \E c \in Ctrl : wc_node[c] = p]_vars

\* C7 happens: a call returned a mapping with a key whose process is sealed
\* already, after another key failed.
WitnessResultMatchesStore ==
    /\ pc[1] = "returned" /\ ~dry_run[1]
    /\ hist[1].failed # << >>
    /\ \E kv \in returned[1] : kv[2] \in NewNodes(1) /\ ~IsActive(nodes[kv[2]])

\* the kinds the claim calls expected
ClaimedExpectedKinds == {"ValueError", "TypeError", "AttributeError"}

\* C8. Unexpected error kinds abort the batch: the loop never goes on after an
\* exception of another kind; the call raises it, the keys after the failing
\* one are not attempted and the nodes written for the keys before it stay in
\* the group.
UnexpectedErrorAborts ==
    \A c \in Ctrl :
        /\ pc[c] \in {"submit", "returned"} =>
              hist[c].last_exc \in ClaimedExpectedKinds \cup {NoError}
        /\ (pc[c] = "raised" /\ hist[c].factory_calls # << >>) =>
              /\ raised[c] = hist[c].last_exc
              /\ raised[c] \notin ClaimedExpectedKinds
              /\ hist[c].factory_calls = SubSeq(to_submit[c], 1, cursor[c])
              /\ \A kv \in submitted[c] : kv[2] \in group /\ RowExtras(kv[2]) = kv[1]
              /\ NewNodes(c) = {kv[2] : kv \in submitted[c]}

\* C8 happens: a call raised after it had submitted a key and before the last
\* key of its batch.
WitnessUnexpectedErrorAborts ==
    /\ pc[1] = "raised"
    /\ raised[1] = "RuntimeError"
    /\ submitted[1] # EmptyDict
    /\ cursor[1] < Len(to_submit[1])

\* C9. Configuration validation: a controller that runs submit_new_batch has
\* a positive max_concurrent.
ConfigurationValidated ==
    \A c \in Ctrl :
        pc[c] \in {"select", "submit", "returned", "raised"} => max_concurrent[c] > 0

\* key k has a node in the group
Recorded(k) == \E p \in group : RowExtras(p) = k

\* C10. One bad item cannot stall the others: every key of the catalog whose
\* submission succeeds is submitted at some time, whatever max_concurrent >= 1.
OneBadItemCannotStall ==
    \A k \in Keys :
        (k \in Range(parent_group) /\ env[k] = {Ok}) => <>Recorded(k)

\* C10, for max_concurrent >= 2 (one always-failing key).
OneBadItemCannotStallTwoSlots ==
    \A k \in Keys :
        (k \in Range(parent_group) /\ env[k] = {Ok} /\ max_concurrent[1] >= 2) => <>Recorded(k)

\* a controller that was constructed
Constructed(c) == pc[c] \notin {"new", "invalid"}

\* C11. Sealing during a call never causes overshoot: whatever seals during
\* the selection or the submission loop, the number of active processes of the
\* group never exceeds max_concurrent, during or after a call.
NoOvershoot ==
    \A c \in Ctrl : Constructed(c) => _count_active_in_group <= max_concurrent[c]

\* C11, for the controllers whose max_concurrent is not negative.
NoOvershootNonNegative ==
    \A c \in Ctrl :
        (Constructed(c) /\ max_concurrent[c] >= 0) => _count_active_in_group <= max_concurrent[c]

---------------------------------------------------------------------------
(* Two controllers with the same max_concurrent on the same group and the same
   catalog, each called again and again with the default arguments; the steps
   of their calls interleave freely, every attempt succeeds, and processes end
   at any time. *)

\* the largest catalog the two controllers share
MaxShared == 2

InitMulti ==
    /\ pc = [c \in Ctrl |-> "ready"]
    /\ \E mc \in 1 .. MaxShared - 1 : max_concurrent = [c \in Ctrl |-> mc]
    /\ \E n \in 1 .. MaxShared : parent_group = [i \in 1 .. n |-> <<i>>]
    /\ order_by = [c \in Ctrl |-> NoOrderBy]
    /\ wc_node = [c \in Ctrl |-> None]
    /\ nodes = << >>
    /\ group = {}
    /\ env = [k \in Keys |-> {Ok}]
    /\ dry_run = [c \in Ctrl |-> FALSE]
    /\ sort = [c \in Ctrl |-> TRUE]
    /\ extras_to_run = [c \in Ctrl |-> << >>]
    /\ to_submit = [c \in Ctrl |-> << >>]
    /\ cursor = [c \in Ctrl |-> 1]
    /\ submitted = [c \in Ctrl |-> EmptyDict]
    /\ returned = [c \in Ctrl |-> EmptyDict]
    /\ raised = [c \in Ctrl |-> NoError]
    /\ hist = [c \in Ctrl |-> NoHist]

StepMulti(c) ==
    \/ SubmitNewBatch(c, FALSE, TRUE)
    \/ SelectNext(c)
    \/ SelectDone(c, FALSE)
    \/ SubmitOk(c)
    \/ SetExtraMany(c)
    \/ GroupAddNodes(c)
    \/ ReturnSubmitted(c)
    \/ CallEnds(c)

NextMulti ==
    \/ StepMulti(1)
    \/ StepMulti(2)
    \/ \E p \in DOMAIN nodes : Seal(p)

SpecMulti == InitMulti /\ [][NextMulti]_vars

\* C12. Multi-writer overshoot: with two controllers of the same
\* max_concurrent on one group the bound of a single writer is lost. Each
\* controller sizes its batch on the active count it read, so the active count
\* can exceed max_concurrent, by no more than the batch of the other
\* controller: it never exceeds twice max_concurrent.
MultiWriterOvershootBounded ==
    _count_active_in_group <= max_concurrent[1] + max_concurrent[2]

\* C12: both controllers started their call on the empty store and selected
\* before either wrote; both have written their batch and the active count
\* exceeds max_concurrent.
WitnessMultiWriterOvershoot ==
    /\ \A c \in Ctrl : /\ pc[c] = "submit"
                       /\ cursor[c] > Len(to_submit[c])
                       /\ hist[c].n0 = 0
                       /\ to_submit[c] # << >>
    /\ _count_active_in_group > max_concurrent[1]
    /\ max_concurrent[1] = max_concurrent[2]

---------------------------------------------------------------------------
(* A single FromGroupSubmissionController constructed with an order_by, called
   again and again with either value of sort; every attempt succeeds. *)

InitOrder ==
    /\ pc = [c \in Ctrl |-> IF c = 1 THEN "ready" ELSE "new"]
    /\ \E mc \in 1 .. MaxMC : max_concurrent = [c \in Ctrl |-> IF c = 1 THEN mc ELSE None]
    /\ \E ob \in OrderBys : order_by = [c \in Ctrl |-> IF c = 1 THEN ob ELSE NoOrderBy]
    /\ wc_node = [c \in Ctrl |-> None]
    /\ parent_group \in {s \in Catalogs : Range(s) \subseteq Keys /\ Cardinality(Range(s)) = Len(s)}
    /\ nodes = << >>
    /\ group = {}
    /\ env = [k \in Keys |-> {Ok}]
    /\ dry_run = [c \in Ctrl |-> FALSE]
    /\ sort = [c \in Ctrl |-> TRUE]
    /\ extras_to_run = [c \in Ctrl |-> << >>]
    /\ to_submit = [c \in Ctrl |-> << >>]
    /\ cursor = [c \in Ctrl |-> 1]
    /\ submitted = [c \in Ctrl |-> EmptyDict]
    /\ returned = [c \in Ctrl |-> EmptyDict]
    /\ raised = [c \in Ctrl |-> NoError]
    /\ hist = [c \in Ctrl |-> NoHist]

StepOrder(c) ==
    \/ \E s \in BOOLEAN : SubmitNewBatch(c, FALSE, s)
    \/ SelectNext(c)
    \/ SelectDone(c, FALSE)
    \/ SubmitOk(c)
    \/ SetExtraMany(c)
    \/ GroupAddNodes(c)
    \/ ReturnSubmitted(c)
    \/ CallEnds(c)

NextOrder ==
    \/ StepOrder(1)
    \/ \E p \in DOMAIN nodes : Seal(p)

SpecOrder == InitOrder /\ [][NextOrder]_vars

\* the elements of the list s that are in the set S, in the order of s
RECURSIVE Restrict(_, _)
Restrict(s, S) ==
    IF s = << >> THEN << >>
    ELSE (IF Head(s) \in S THEN <<Head(s)>> ELSE << >>) \o Restrict(Tail(s), S)

\* C13. Configured ordering is honoured: a controller constructed with an
\* order_by and called with sort=False goes through the pending keys in the
\* order of order_by (so that, when slots are scarce, the first keys in that
\* order are the ones submitted).
OrderByHonoured ==
    \A c \in Ctrl :
        (/\ pc[c] \in {"select", "submit", "returned"}
         /\ ~sort[c]
         /\ order_by[c] # NoOrderBy
         /\ ~hist[c].disturbed)
        => extras_to_run[c] =
               Restrict(QueryAll(parent_group, order_by[c]), Range(extras_to_run[c]))

\* C13, with sort=True: the pending keys are gone through in ascending order,
\* whatever order_by says.
SortOverridesOrderBy ==
    \A c \in Ctrl :
        (pc[c] \in {"select", "submit", "returned"} /\ sort[c]) => IsSorted(extras_to_run[c])

\* the n smallest elements of the set S of tuples
Smallest(S, n) == {k \in S : Cardinality({j \in S : TupleLess(j, k)}) < n}

\* C14. Saturation: a call with the default arguments that starts on an empty
\* store with more catalog keys than max_concurrent, and whose attempts all
\* succeed, submits exactly the max_concurrent smallest keys and leaves
\* max_concurrent active processes; a call that starts when max_concurrent
\* processes are active, none of which seals, submits nothing and leaves the
\* store as it was.
SaturationScenario ==
    \A c \in Ctrl :
        (/\ pc[c] = "returned" /\ ~dry_run[c] /\ sort[c]
         /\ ~hist[c].disturbed
         /\ max_concurrent[c] >= 0) =>
            /\ (/\ hist[c].n0 = 0
                /\ hist[c].failed = << >>
                /\ Cardinality(Range(parent_group)) > max_concurrent[c]) =>
                    /\ DictKeys(returned[c]) = Smallest(Range(parent_group), max_concurrent[c])
                    /\ {nodes[p].inputs : p \in DOMAIN nodes} = DictKeys(returned[c])
                    /\ Len(nodes) = max_concurrent[c]
                    /\ _count_active_in_group = max_concurrent[c]
            /\ (_count_active_in_group - Cardinality(NewNodes(c)) >= max_concurrent[c]) =>
                    /\ returned[c] = EmptyDict
                    /\ NewNodes(c) = {}
                    /\ hist[c].factory_calls = << >>

\* C14 happens: max_concurrent = 2 and three catalog keys; the two smallest
\* keys were submitted by an earlier call and are active, and a further call
\* has returned with nothing submitted while a key is still pending.
WitnessSaturationScenario ==
    /\ pc[1] = "returned" /\ ~dry_run[1] /\ sort[1] /\ ~hist[1].disturbed
    /\ max_concurrent[1] = 2
    /\ Range(parent_group) = {<<1>>, <<2>>, <<3>>}
    /\ hist[1].n0 = 2
    /\ {nodes[p].inputs : p \in DOMAIN nodes} = {<<1>>, <<2>>}
    /\ _count_active_in_group = 2
    /\ returned[1] = EmptyDict
    /\ Pending = {<<3>>}

\* C15. Capacity snapshot: the active count is read once, before selection, so
\* that a process sealing while the selection runs does not enlarge the batch
\* beyond the capacity measured when the call started.
CapacitySnapshot ==
    \A c \in Ctrl :
        SelectionOver(c) => Len(to_submit[c]) <= Max(0, max_concurrent[c] - hist[c].a0)

\* C15, amended: the active count is read again at every iteration of the
\* selection loop. When the loop ends the batch holds as many keys as the
\* active count of that moment allows, min(|pending|, max(0, max_concurrent -
\* active)), and during the submission loop the batch is not changed.
BatchFollowsActiveCount ==
    [][\A c \in Ctrl :
          /\ (pc[c] = "select" /\ pc'[c] # "select") =>
                Len(to_submit'[c]) =
                    Min(Len(extras_to_run[c]),
                        Max(0, max_concurrent[c] - _count_active_in_group))
          /\ (pc[c] = "submit" /\ pc'[c] = "submit") => to_submit'[c] = to_submit[c]]_vars

\* C15 happens: a process sealed while the selection ran and the batch is
\* larger than the capacity measured when the call started.
WitnessBatchFollowsActiveCount ==
    /\ SelectionOver(1)
    /\ hist[1].disturbed
    /\ max_concurrent[1] >= 1
    /\ hist[1].a0 >= 1
    /\ Len(to_submit[1]) > Max(0, max_concurrent[1] - hist[1].a0)

\* the list s holds no element twice
Distinct(s) == \A i, j \in DOMAIN s : i # j => s[i] # s[j]

\* C16. No retry within a batch, retry across batches: within a call each
\* selected key is attempted at most once; a key whose attempt failed is not
\* recorded, so it is still pending when the call ends, and the next call
\* starts from all the pending keys, that key among them.
NoRetryWithinBatch ==
    /\ [](\A c \in Ctrl :
            /\ Distinct(hist[c].factory_calls)
            /\ Distinct(hist[c].engine_calls)
            /\ Distinct(to_submit[c])
            /\ \A k \in Range(hist[c].failed) :
                  /\ k \notin DictKeys(submitted[c])
                  /\ ~Recorded(k)
                  /\ k \in Pending)
    /\ [][\A c \in Ctrl :
            (pc[c] = "ready" /\ pc'[c] = "select") => Range(extras_to_run'[c]) = Pending]_vars

\* C16 happens: on the fixed catalog {(1,), (2,)} key (2,) was recorded by an
\* earlier call, which attempted the smaller key (1,) before it and failed;
\* the running call attempted (1,) again, once, and it failed again.
WitnessNoRetryWithinBatch ==
    /\ pc[1] = "returned"
    /\ Range(parent_group) = {<<1>>, <<2>>}
    /\ Recorded(<<2>>)
    /\ hist[1].n0 = 1
    /\ hist[1].factory_calls = <<<<1>>>>
    /\ hist[1].failed = <<<<1>>>>
    /\ <<1>> \in Pending

\* C17. The controller only appends: no step removes a node from the database
\* or from the group, or changes the extras of a node of the group; the set of
\* known keys never shrinks; a step of a call leaves every node of the group
\* as it is and the sealed flag of every node as it is, so that the sealed
\* flag of a node changes only from false to true and only by the engine.
ControllerOnlyAppends ==
    [][(nodes' # nodes \/ group' # group) =>
       /\ \A p \in DOMAIN nodes :
             /\ p \in DOMAIN nodes'
             /\ nodes'[p].inputs = nodes[p].inputs
             /\ ~IsActive(nodes[p]) => ~IsActive(nodes'[p])
       /\ \A p \in group : nodes'[p].extras = nodes[p].extras
       /\ group \subseteq group'
       /\ (group' # group \/ \E p \in group : nodes'[p].extras # nodes[p].extras) =>
             _check_submitted_extras \subseteq _check_submitted_extras'
       /\ (\E c \in Ctrl : Moves(c)) =>
             /\ \A p \in group : nodes'[p] = nodes[p]
             /\ \A p \in DOMAIN nodes : nodes'[p].attributes = nodes[p].attributes]_vars

\* C17 happens: a call has added nodes to a store that held a sealed and an
\* active node, both still there and as they were.
WitnessControllerOnlyAppends ==
    /\ pc[1] = "returned"
    /\ NewNodes(1) # {}
    /\ ~hist[1].disturbed
    /\ \E p, q \in group : /\ p <= hist[1].n0 /\ q <= hist[1].n0
                           /\ IsActive(nodes[p]) /\ ~IsActive(nodes[q])

---------------------------------------------------------------------------
(* A single controller called again and again with the default arguments, on
   a fixed catalog of distinct keys whose attempts all succeed, while every
   process that runs ends at some time. *)

InitComplete ==
    /\ pc = [c \in Ctrl |-> IF c = 1 THEN "ready" ELSE "new"]
    /\ \E mc \in 1 .. MaxMC : max_concurrent = [c \in Ctrl |-> IF c = 1 THEN mc ELSE None]
    /\ order_by = [c \in Ctrl |-> NoOrderBy]
    /\ wc_node = [c \in Ctrl |-> None]
    /\ parent_group \in {s \in Catalogs : Range(s) \subseteq Keys /\ Cardinality(Range(s)) = Len(s)}
    /\ nodes = << >>
    /\ group = {}
    /\ env = [k \in Keys |-> {Ok}]
    /\ dry_run = [c \in Ctrl |-> FALSE]
    /\ sort = [c \in Ctrl |-> TRUE]
    /\ extras_to_run = [c \in Ctrl |-> << >>]
    /\ to_submit = [c \in Ctrl |-> << >>]
    /\ cursor = [c \in Ctrl |-> 1]
    /\ submitted = [c \in Ctrl |-> EmptyDict]
    /\ returned = [c \in Ctrl |-> EmptyDict]
    /\ raised = [c \in Ctrl |-> NoError]
    /\ hist = [c \in Ctrl |-> NoHist]

StepComplete(c) ==
    \/ SubmitNewBatch(c, FALSE, TRUE)
    \/ SelectNext(c)
    \/ SelectDone(c, FALSE)
    \/ SubmitOk(c)
    \/ SetExtraMany(c)
    \/ GroupAddNodes(c)
    \/ ReturnSubmitted(c)
    \/ CallEnds(c)

NextComplete ==
    \/ StepComplete(1)
    \/ \E p \in DOMAIN nodes : Seal(p)

\* the caller keeps calling and each call runs to its end; the engine seals
\* every process it runs, whatever the controller is doing
SpecComplete ==
    /\ InitComplete
    /\ [][NextComplete]_vars
    /\ WF_vars(StepComplete(1))
    /\ \A p \in 1 .. MaxKey : SF_vars(Seal(p))

\* C18. Eventual completion: on a fixed catalog, with max_concurrent >= 1,
\* every attempt succeeding, every active process sealing at some time and
\* calls repeated for ever, every catalog key is recorded at some time and
\* stays recorded (pending is empty); from then on no call submits anything.
EventualCompletion ==
    /\ <>[](Pending = {})
    /\ [][Pending = {} => (Len(nodes') = Len(nodes) /\ group' = group)]_vars

\* C18 happens: a catalog of more keys than slots was worked off in several
\* batches, and a further call has returned with nothing submitted.
WitnessEventualCompletion ==
    /\ pc[1] = "returned"
    /\ Len(parent_group) > max_concurrent[1]
    /\ Pending = {}
    /\ hist[1].n0 = Len(parent_group)
    /\ Len(nodes) = Len(parent_group)
    /\ returned[1] = EmptyDict

\* the keys for which the engine started a process in the call of controller c
Started(c) == Range(hist[c].engine_calls) \ Range(hist[c].failed)

\* C19. Every started unit is tracked: between two iterations of the
\* submission loop, and when the call has ended, the keys for which the engine
\* started a process are the keys of the nodes the group gained since the call
\* started, each node tagged with its key; each of them was pending when the
\* call started.
StartedUnitsTracked ==
    \A c \in Ctrl :
        pc[c] \in {"submit", "returned", "raised"} =>
            /\ NewNodes(c) \subseteq group
            /\ \A p \in NewNodes(c) : /\ nodes[p].extras = ZipExtras(nodes[p].inputs)
                                      /\ RowExtras(p) = nodes[p].inputs
            /\ Started(c) = {nodes[p].inputs : p \in NewNodes(c)}
            /\ Started(c) = {RowExtras(p) : p \in NewNodes(c) \cap group}
            /\ Started(c) = DictKeys(submitted[c])
            /\ Started(c) \subseteq Range(extras_to_run[c])
            /\ \A p \in group \ NewNodes(c) : RowExtras(p) \notin Started(c)

\* C19 happens: in the middle of a batch of two or more keys the first key was
\* started and is recorded, the second is about to be processed.
WitnessStartedUnitsTracked ==
    /\ pc[1] = "submit"
    /\ cursor[1] = 2
    /\ Len(to_submit[1]) >= 2
    /\ hist[1].n0 >= 1
    /\ Started(1) = {to_submit[1][1]}
    /\ NewNodes(1) = {hist[1].n0 + 1}
    /\ hist[1].n0 + 1 \in group
    /\ RowExtras(hist[1].n0 + 1) = to_submit[1][1]

---------------------------------------------------------------------------
(* A single controller called again and again with the default arguments on a
   group that already holds process nodes without the unique extras, put there
   by somebody else; every attempt succeeds and processes end at any time. *)

\* the group holds at most MaxForeign nodes that the controller did not create
MaxForeign == 2

\* a process node of the group that has none of the unique extras
ForeignNode(sealed) ==
    [inputs |-> <<None>>, extras |-> EmptyDict,
     attributes |-> IF sealed THEN DictPut(EmptyDict, "sealed", TRUE) ELSE EmptyDict]

InitForeign ==
    /\ pc = [c \in Ctrl |-> IF c = 1 THEN "ready" ELSE "new"]
    /\ \E mc \in 1 .. MaxMC : max_concurrent = [c \in Ctrl |-> IF c = 1 THEN mc ELSE None]
    /\ order_by = [c \in Ctrl |-> NoOrderBy]
    /\ wc_node = [c \in Ctrl |-> None]
    /\ parent_group \in {s \in Catalogs : Range(s) \subseteq Keys /\ Cardinality(Range(s)) = Len(s)}
    /\ \E f \in 1 .. MaxForeign : \E sealed \in [1 .. f -> BOOLEAN] :
          /\ nodes = [p \in 1 .. f |-> ForeignNode(sealed[p])]
          /\ group = 1 .. f
    /\ env = [k \in Keys |-> {Ok}]
    /\ dry_run = [c \in Ctrl |-> FALSE]
    /\ sort = [c \in Ctrl |-> TRUE]
    /\ extras_to_run = [c \in Ctrl |-> << >>]
    /\ to_submit = [c \in Ctrl |-> << >>]
    /\ cursor = [c \in Ctrl |-> 1]
    /\ submitted = [c \in Ctrl |-> EmptyDict]
    /\ returned = [c \in Ctrl |-> EmptyDict]
    /\ raised = [c \in Ctrl |-> NoError]
    /\ hist = [c \in Ctrl |-> NoHist]

StepForeign(c) ==
    \/ SubmitNewBatch(c, FALSE, TRUE)
    \/ SelectNext(c)
    \/ SelectDone(c, FALSE)
    \/ SubmitOk(c)
    \/ SetExtraMany(c)
    \/ GroupAddNodes(c)
    \/ ReturnSubmitted(c)
    \/ CallEnds(c)

NextForeign ==
    \/ StepForeign(1)
    \/ \E p \in DOMAIN nodes : Seal(p)

SpecForeign == InitForeign /\ [][NextForeign]_vars

\* the nodes of the group that lack one of the unique extras
Incomplete == {p \in group : \E i \in DOMAIN RowExtras(p) : RowExtras(p)[i] = None}

\* C20. Records with incomplete identity: a node of the group that lacks a
\* unique extra is not among the known keys, so it takes no catalog key out of
\* the pending keys; while it is not sealed it is counted as active, takes a
\* slot and makes the next batch smaller.
IncompleteRecords ==
    LET completeKeys == {RowExtras(p) : p \in group \ Incomplete}
        activeComplete == {p \in group \ Incomplete : IsActive(nodes[p])}
        activeIncomplete == {p \in Incomplete : IsActive(nodes[p])}
    IN  /\ _check_submitted_extras = completeKeys
        /\ num_already_run = Cardinality(completeKeys)
        /\ _count_active_in_group = Cardinality(activeComplete) + Cardinality(activeIncomplete)
        /\ \A c \in Ctrl :
              (/\ pc[c] \in {"select", "submit"} /\ cursor[c] = 1
               /\ ~hist[c].disturbed) =>
                    Range(extras_to_run[c]) = Range(parent_group) \ completeKeys
        /\ \A c \in Ctrl :
              (SelectionOver(c) /\ ~hist[c].disturbed) =>
                    Len(to_submit[c]) =
                        Min(Cardinality(Range(parent_group) \ completeKeys),
                            Max(0, max_concurrent[c] - Cardinality(activeComplete)
                                                     - Cardinality(activeIncomplete)))

\* C20 happens: the group holds an active node without the unique extras and
\* no other active node; the batch is not empty and is one key short of what
\* the pending keys and max_concurrent would allow.
WitnessIncompleteRecords ==
    /\ SelectionOver(1) /\ ~hist[1].disturbed
    /\ Cardinality({p \in Incomplete : IsActive(nodes[p])}) = 1
    /\ _count_active_in_group = 1
    /\ Len(to_submit[1]) >= 1
    /\ Len(to_submit[1]) = max_concurrent[1] - 1
    /\ Len(to_submit[1]) < Len(extras_to_run[1])

\* the keys of get_all_submitted_pks() are the same in whatever order the
\* query returns its rows; the pks may differ
KnownKeysWhateverOrder ==
    \A rows \in QueryRows(FALSE) :
        DictKeys(get_all_submitted_pks(rows)) = _check_submitted_extras

====
